---- MODULE Spec2Model ----
(***************************************************************************)
(* State machine of McpContext (page registry, dialog capture, text        *)
(* snapshots, uid resolution) of chrome-reader-mcp, together with the      *)
(* browser it drives.                                                      *)
(***************************************************************************)
EXTENDS Integers, Sequences, FiniteSets

\* ------------------------------------------------------------------ bounds
MaxPages == 3       \* page handles the browser creates in one behaviour
SnapshotPages == 1  \* pages open at the start of a run about captures
DialogPages == 2    \* pages open at the start of a run about dialogs
MaxCaptures == 3    \* successful captures in one behaviour
MaxNodes == 3       \* nodes of an accessibility tree returned by the browser
MaxDialogs == 2     \* dialog events in one behaviour
MaxInflight == 1    \* captures suspended at their await point
ResponsePages == 1  \* pages open at the start of a run about responses, exactly
ResponseCaptures == 1 \* successful captures in a run about responses
ResponseNodes == 1  \* nodes of a tree captured for a response
ResponseDialogs == 1 \* dialog events in a run about responses
MaxParts == 2       \* text lines and images added to one response
PeerCaptures == 2   \* successful captures of the second session
PeerNodes == 1      \* nodes of a tree captured by the second session
OverlapInflight == 2 \* captures suspended at their await point in a run about overlap
OverlapCaptures == 2 \* successful captures in a run about overlap
OverlapNodes == 2   \* nodes of a tree captured in a run about overlap
OverlapDialogs == 1 \* dialog events in a run about overlap
FramePages == 1     \* pages open at the start of a run about what calls leave alone, exactly
FrameHandles == 2   \* page handles the browser creates in such a run
FrameCaptures == 1  \* successful captures in such a run
FrameDialogs == 1   \* dialog events in such a run

\* --------------------------------------------------------------- constants
NoPage == 0
CLOSE_PAGE_ERROR == "The last open page cannot be closed. It is fine to keep it open."
NO_PAGE_SELECTED == "No page selected"
SELECTED_PAGE_CLOSED == "The selected page has been closed. Call list_pages to see open pages."
NO_PAGE_FOUND == "No page found"
NO_SNAPSHOT == "No snapshot found. Use take_snapshot to capture one."
STALE_SNAPSHOT == "This uid is coming from a stale snapshot. Call take_snapshot to get a fresh snapshot."
NO_SUCH_ELEMENT == "No such element found in the snapshot"
TARGET_CLOSED == "Protocol error: the page has been closed"
OK == "ok"

VARIABLES
  browser,   \* the collaborator: open pages in creation order, closed pages, devtools pages
  ctx,       \* the McpContext instance: its private fields and the listeners it attached
  inflight,  \* createTextSnapshot calls suspended at `await page.accessibility.snapshot`
  last,      \* the operation that made the last step: its argument, its outcome (err)
             \* and, in pre, the selection or the dialog it found
  captures,  \* history: the snapshotId of every successful capture, in order
  delivered, \* history: the dialogs handed to #dialogHandler, in order
  response,  \* the McpResponse of the tool call in progress
  peer       \* the second McpContext created in the same process, if any

vars == <<browser, ctx, inflight, last, captures, delivered, response, peer>>

Pages == 1..MaxPages

\* ---------------------------------------------------------- small helpers
Range(s) == {s[i] : i \in DOMAIN s}

IndexOf(s, x) ==
  IF x \in Range(s) THEN CHOOSE i \in DOMAIN s : s[i] = x /\ \A j \in 1..(i - 1) : s[j] # x
  ELSE -1

Merge(f, g) == [x \in (DOMAIN f) \cup (DOMAIN g) |-> IF x \in DOMAIN g THEN g[x] ELSE f[x]]

\* ---------------------------------------------- strings of the uid format
Digits == <<"0", "1", "2", "3", "4", "5", "6", "7", "8", "9">>

RECURSIVE NumToString(_)
\* String(n) / template-literal formatting of a non-negative integer
NumToString(n) ==
  IF n < 10 THEN <<Digits[n + 1]>>
  ELSE NumToString(n \div 10) \o <<Digits[(n % 10) + 1]>>

\* `${snapshotId}_${idCounter}`
MakeUid(snapshotId, idCounter) == NumToString(snapshotId) \o <<"_">> \o NumToString(idCounter)

\* const [snapshotId] = uid.split('_')
SplitPrefix(uid) ==
  IF "_" \in Range(uid)
  THEN SubSeq(uid, 1, IndexOf(uid, "_") - 1)
  ELSE uid

\* ------------------------------------------------- accessibility trees
\* A SerializedAXNode is [children |-> sequence of SerializedAXNode].
RECURSIVE Trees(_), Forests(_)
Trees(n) == IF n = 0 THEN {} ELSE {[children |-> f] : f \in Forests(n - 1)}
Forests(m) ==
  IF m = 0 THEN {<<>>}
  ELSE UNION {{<<t>> \o f : t \in Trees(k), f \in Forests(m - k)} : k \in 1..m}

TreesUpTo(n) == UNION {Trees(k) : k \in 1..n}

AXTrees == TreesUpTo(MaxNodes)

RECURSIVE NodeCount(_), ForestCount(_)
NodeCount(node) == 1 + ForestCount(node.children)
ForestCount(f) == IF f = <<>> THEN 0 ELSE NodeCount(Head(f)) + ForestCount(Tail(f))

\* ------------------------------------------------------- option values
\* `T | undefined` and `T | null` are sequences of length 0 or 1.
None == <<>>
Some(x) == <<x>>

\* ------------------------------------------------------------ McpContext
\* getSelectedPage without the isClosed() test
getSelectedPage_noClosedCheck(c, b) ==
  IF c.selectedPage = NoPage THEN [err |-> NO_PAGE_SELECTED, page |-> NoPage]
  ELSE [err |-> OK, page |-> c.selectedPage]

\* getSelectedPage(): the page, or the error it throws
getSelectedPage(c, b) ==
  IF c.selectedPage = NoPage THEN [err |-> NO_PAGE_SELECTED, page |-> NoPage]
  ELSE IF c.selectedPage \in b.closed THEN [err |-> SELECTED_PAGE_CLOSED, page |-> NoPage]
  ELSE [err |-> OK, page |-> c.selectedPage]

\* getPageById(pageId): #pages.find(p => #pageIdMap.get(p) === pageId)
getPageById(c, pageId) ==
  LET hits == SelectSeq(c.pages, LAMBDA p : p \in DOMAIN c.pageIdMap /\ c.pageIdMap[p] = pageId)
  IN IF hits = <<>> THEN [err |-> NO_PAGE_FOUND, page |-> NoPage]
     ELSE [err |-> OK, page |-> Head(hits)]

\* oldPage.off('dialog', handler): removes one registration of the handler
off(listeners, page) ==
  [listeners EXCEPT ![page] = IF @ > 0 THEN @ - 1 ELSE 0]

\* newPage.on('dialog', handler): adds one registration of the handler
on(listeners, page) ==
  [listeners EXCEPT ![page] = @ + 1]

\* selectPage that drops the snapshot when the selection moves to another page
selectPage_dropsSnapshot(c, b, newPage) ==
  LET oldPage == c.selectedPage
      detached == IF oldPage # NoPage THEN off(c.listeners, oldPage) ELSE c.listeners
      c1 == [c EXCEPT !.selectedPage = newPage, !.listeners = on(detached, newPage),
                      !.textSnapshot = IF oldPage = newPage THEN @ ELSE None]
  IN [ctx |-> c1, err |-> getSelectedPage(c1, b).err]

\* selectPage that forgets the dialog of the page it leaves
selectPage_clearsDialog(c, b, newPage) ==
  LET oldPage == c.selectedPage
      detached == IF oldPage # NoPage THEN off(c.listeners, oldPage) ELSE c.listeners
      c1 == [c EXCEPT !.selectedPage = newPage, !.listeners = on(detached, newPage),
                      !.dialog = IF oldPage = newPage THEN @ ELSE None]
  IN [ctx |-> c1, err |-> getSelectedPage(c1, b).err]

\* selectPage that looks at the new page before it touches the session
selectPage_checksFirst(c, b, newPage) ==
  LET oldPage == c.selectedPage
      detached == IF oldPage # NoPage THEN off(c.listeners, oldPage) ELSE c.listeners
      c1 == [c EXCEPT !.selectedPage = newPage, !.listeners = on(detached, newPage)]
  IN IF newPage \in b.closed THEN [ctx |-> c, err |-> SELECTED_PAGE_CLOSED]
     ELSE [ctx |-> c1, err |-> getSelectedPage(c1, b).err]

\* selectPage that leaves the handler on the old page
selectPage_noDetach(c, b, newPage) ==
  LET c1 == [c EXCEPT !.selectedPage = newPage, !.listeners = on(c.listeners, newPage)]
  IN [ctx |-> c1, err |-> getSelectedPage(c1, b).err]

\* selectPage(newPage): the context it leaves and the error it throws, if any.
\* The fields are assigned before #updateSelectedPageTimeouts() can throw.
selectPage(c, b, newPage) ==
  LET oldPage == c.selectedPage
      detached == IF oldPage # NoPage THEN off(c.listeners, oldPage) ELSE c.listeners
      c1 == [c EXCEPT !.selectedPage = newPage, !.listeners = on(detached, newPage)]
  IN [ctx |-> c1, err |-> getSelectedPage(c1, b).err]

RECURSIVE assignPageIds(_, _, _), assignPageIds_noIncrement(_, _, _)
\* assignPageIds reading #nextPageId without incrementing it
assignPageIds_noIncrement(allPages, pageIdMap, nextPageId) ==
  IF allPages = <<>> THEN [pageIdMap |-> pageIdMap, nextPageId |-> nextPageId]
  ELSE IF Head(allPages) \in DOMAIN pageIdMap
       THEN assignPageIds_noIncrement(Tail(allPages), pageIdMap, nextPageId)
       ELSE assignPageIds_noIncrement(Tail(allPages),
                                      Merge(pageIdMap, [p \in {Head(allPages)} |-> nextPageId]),
                                      nextPageId)

\* for (const page of allPages) if (!#pageIdMap.has(page)) #pageIdMap.set(page, #nextPageId++)
assignPageIds(allPages, pageIdMap, nextPageId) ==
  IF allPages = <<>> THEN [pageIdMap |-> pageIdMap, nextPageId |-> nextPageId]
  ELSE IF Head(allPages) \in DOMAIN pageIdMap
       THEN assignPageIds(Tail(allPages), pageIdMap, nextPageId)
       ELSE assignPageIds(Tail(allPages),
                          Merge(pageIdMap, [p \in {Head(allPages)} |-> nextPageId]),
                          nextPageId + 1)

\* the filter of createPagesSnapshot
isVisible(c, b, page) ==
  c.experimentalDevToolsDebugging \/ page \notin b.devtools

\* createPagesSnapshot that selects a page only when none is selected
createPagesSnapshot_onlyWhenUnselected(c, b) ==
  LET allPages == b.open
      ids == assignPageIds(allPages, c.pageIdMap, c.nextPageId)
      pages == SelectSeq(allPages, LAMBDA p : isVisible(c, b, p))
      c1 == [c EXCEPT !.pageIdMap = ids.pageIdMap,
                      !.nextPageId = ids.nextPageId,
                      !.pages = pages]
  IN IF c1.selectedPage = NoPage /\ pages # <<>>
     THEN selectPage(c1, b, pages[1]).ctx
     ELSE c1

\* createPagesSnapshot that empties the selection when it lists no page
createPagesSnapshot_clearsSelection(c, b) ==
  LET allPages == b.open
      ids == assignPageIds(allPages, c.pageIdMap, c.nextPageId)
      pages == SelectSeq(allPages, LAMBDA p : isVisible(c, b, p))
      c1 == [c EXCEPT !.pageIdMap = ids.pageIdMap,
                      !.nextPageId = ids.nextPageId,
                      !.pages = pages]
  IN IF c1.selectedPage = NoPage \/ IndexOf(pages, c1.selectedPage) = -1
     THEN IF pages # <<>>
          THEN selectPage(c1, b, pages[1]).ctx
          ELSE [c1 EXCEPT !.selectedPage = NoPage,
                          !.listeners = IF c1.selectedPage # NoPage
                                        THEN off(@, c1.selectedPage) ELSE @]
     ELSE c1

\* createPagesSnapshot(), with allPages the reply of browser.pages()
createPagesSnapshot(c, b) ==
  LET allPages == b.open
      ids == assignPageIds(allPages, c.pageIdMap, c.nextPageId)
      pages == SelectSeq(allPages, LAMBDA p : isVisible(c, b, p))
      c1 == [c EXCEPT !.pageIdMap = ids.pageIdMap,
                      !.nextPageId = ids.nextPageId,
                      !.pages = pages]
  IN IF (c1.selectedPage = NoPage \/ IndexOf(pages, c1.selectedPage) = -1) /\ pages # <<>>
     THEN selectPage(c1, b, pages[1]).ctx
     ELSE c1

RECURSIVE assignIds(_, _, _, _), assignChildren(_, _, _, _), assignChildren_sameCounter(_, _, _, _)
RECURSIVE assignIds_childrenFirst(_, _, _, _)
\* assignIds formatting the id of a node after its children have been mapped
assignIds_childrenFirst(node, snapshotId, idCounter, idToNode) ==
  LET kids == assignChildren(node.children, snapshotId, idCounter, idToNode)
      id == MakeUid(snapshotId, kids.idCounter)
      nodeWithId == [id |-> id, children |-> kids.nodes]
  IN [node |-> nodeWithId,
      idCounter |-> kids.idCounter + 1,
      idToNode |-> Merge(kids.idToNode, [u \in {id} |-> nodeWithId])]

\* assignIds(node): the id is formatted (and idCounter incremented) before the
\* children are mapped, and idToNode.set runs after them.
assignIds(node, snapshotId, idCounter, idToNode) ==
  LET id == MakeUid(snapshotId, idCounter)
      kids == assignChildren(node.children, snapshotId, idCounter + 1, idToNode)
      nodeWithId == [id |-> id, children |-> kids.nodes]
  IN [node |-> nodeWithId,
      idCounter |-> kids.idCounter,
      idToNode |-> Merge(kids.idToNode, [u \in {id} |-> nodeWithId])]

\* assignChildren with every child numbered from the counter its parent left
assignChildren_sameCounter(children, snapshotId, idCounter, idToNode) ==
  IF children = <<>>
  THEN [nodes |-> <<>>, idCounter |-> idCounter, idToNode |-> idToNode]
  ELSE LET first == assignIds(Head(children), snapshotId, idCounter, idToNode)
           rest == assignChildren_sameCounter(Tail(children), snapshotId, idCounter, first.idToNode)
       IN [nodes |-> <<first.node>> \o rest.nodes,
           idCounter |-> first.idCounter,
           idToNode |-> rest.idToNode]

\* node.children.map(child => assignIds(child))
assignChildren(children, snapshotId, idCounter, idToNode) ==
  IF children = <<>>
  THEN [nodes |-> <<>>, idCounter |-> idCounter, idToNode |-> idToNode]
  ELSE LET first == assignIds(Head(children), snapshotId, idCounter, idToNode)
           rest == assignChildren(Tail(children), snapshotId, first.idCounter, first.idToNode)
       IN [nodes |-> <<first.node>> \o rest.nodes,
           idCounter |-> rest.idCounter,
           idToNode |-> rest.idToNode]

\* installTextSnapshot taking a snapshotId before it looks at the reply
installTextSnapshot_countsEmptyReply(c, rootNode, verbose, page) ==
  LET snapshotId == c.nextSnapshotId
  IN IF rootNode = None THEN [c EXCEPT !.nextSnapshotId = snapshotId + 1]
     ELSE LET stamped == assignIds(rootNode[1], snapshotId, 0, <<>>)
          IN [c EXCEPT !.nextSnapshotId = snapshotId + 1,
                       !.textSnapshot = Some([root |-> stamped.node,
                                              snapshotId |-> NumToString(snapshotId),
                                              idToNode |-> stamped.idToNode,
                                              hasSelectedElement |-> FALSE,
                                              verbose |-> verbose,
                                              page |-> page])]

\* installTextSnapshot reading #nextSnapshotId without incrementing it
installTextSnapshot_noIncrement(c, rootNode, verbose, page) ==
  IF rootNode = None THEN c
  ELSE LET snapshotId == c.nextSnapshotId
           stamped == assignIds(rootNode[1], snapshotId, 0, <<>>)
       IN [c EXCEPT !.textSnapshot = Some([root |-> stamped.node,
                                           snapshotId |-> NumToString(snapshotId),
                                           idToNode |-> stamped.idToNode,
                                           hasSelectedElement |-> FALSE,
                                           verbose |-> verbose,
                                           page |-> page])]

\* createTextSnapshot() after its await: rootNode is the reply of
\* page.accessibility.snapshot (None when the browser has no tree).
installTextSnapshot(c, rootNode, verbose, page) ==
  IF rootNode = None THEN c
  ELSE LET snapshotId == c.nextSnapshotId
           stamped == assignIds(rootNode[1], snapshotId, 0, <<>>)
       IN [c EXCEPT !.nextSnapshotId = snapshotId + 1,
                    !.textSnapshot = Some([root |-> stamped.node,
                                           snapshotId |-> NumToString(snapshotId),
                                           idToNode |-> stamped.idToNode,
                                           hasSelectedElement |-> FALSE,
                                           verbose |-> verbose,
                                           page |-> page])]

\* getElementByUid without the comparison of the uid's prefix
getElementByUid_noPrefixCheck(c, uid, attached) ==
  IF c.textSnapshot = None \/ Cardinality(DOMAIN c.textSnapshot[1].idToNode) = 0
  THEN [err |-> NO_SNAPSHOT, node |-> None]
  ELSE IF uid \notin DOMAIN c.textSnapshot[1].idToNode
  THEN [err |-> NO_SUCH_ELEMENT, node |-> None]
  ELSE IF ~attached
  THEN [err |-> NO_SUCH_ELEMENT, node |-> None]
  ELSE [err |-> OK, node |-> Some(c.textSnapshot[1].idToNode[uid])]

\* getElementByUid with the lookup in idToNode made before the comparison of the
\* uid's prefix
getElementByUid_lookupFirst(c, uid, attached) ==
  IF c.textSnapshot = None \/ Cardinality(DOMAIN c.textSnapshot[1].idToNode) = 0
  THEN [err |-> NO_SNAPSHOT, node |-> None]
  ELSE IF uid \notin DOMAIN c.textSnapshot[1].idToNode
  THEN [err |-> NO_SUCH_ELEMENT, node |-> None]
  ELSE IF c.textSnapshot[1].snapshotId # SplitPrefix(uid)
  THEN [err |-> STALE_SNAPSHOT, node |-> None]
  ELSE IF ~attached
  THEN [err |-> NO_SUCH_ELEMENT, node |-> None]
  ELSE [err |-> OK, node |-> Some(c.textSnapshot[1].idToNode[uid])]

\* getElementByUid(uid): attached tells whether node.elementHandle() yields a handle
getElementByUid(c, uid, attached) ==
  IF c.textSnapshot = None \/ Cardinality(DOMAIN c.textSnapshot[1].idToNode) = 0
  THEN [err |-> NO_SNAPSHOT, node |-> None]
  ELSE IF c.textSnapshot[1].snapshotId # SplitPrefix(uid)
  THEN [err |-> STALE_SNAPSHOT, node |-> None]
  ELSE IF uid \notin DOMAIN c.textSnapshot[1].idToNode
  THEN [err |-> NO_SUCH_ELEMENT, node |-> None]
  ELSE IF ~attached
  THEN [err |-> NO_SUCH_ELEMENT, node |-> None]
  ELSE [err |-> OK, node |-> Some(c.textSnapshot[1].idToNode[uid])]

\* closePage(pageId): the error it throws, or the page it asks the browser to close
closePage(c, pageId) ==
  IF Len(c.pages) = 1 THEN [err |-> CLOSE_PAGE_ERROR, page |-> NoPage]
  ELSE getPageById(c, pageId)

\* a handler that keeps the dialog that is already pending
dialogHandler_keepFirst(c, dialog) ==
  IF c.dialog = None THEN [c EXCEPT !.dialog = Some(dialog)] ELSE c

\* #dialogHandler
dialogHandler(c, dialog) == [c EXCEPT !.dialog = Some(dialog)]

\* clearDialog()
clearDialog(c) == [c EXCEPT !.dialog = None]

\* ----------------------------------------------------------- McpResponse
IO_ERROR == "Could not save a screenshot to a file"

\* the fields of a new McpResponse
newResponse ==
  [includePages |-> FALSE, snapshotParams |-> None, textResponseLines |-> <<>>, images |-> <<>>]

\* includeSnapshot(params): params ?? {verbose: false}
includeSnapshot(r, params) ==
  [r EXCEPT !.snapshotParams =
     IF params = None THEN Some([verbose |-> FALSE, filePath |-> None]) ELSE params]

\* page.url() of a page of the browser
url(b, page) == IF page \in b.devtools THEN "devtools://devtools" ELSE "about:blank"

\* formatSnapshotNode(snapshot.root, snapshot): the text of the stamped tree,
\* here the uids of its nodes in document order
RECURSIVE formatSnapshotNode(_)
formatSnapshotNode(node) ==
  <<node.id>> \o
    (IF node.children = <<>> THEN <<>>
     ELSE LET kids == [i \in DOMAIN node.children |-> formatSnapshotNode(node.children[i])]
              F[i \in 0..Len(kids)] == IF i = 0 THEN <<>> ELSE F[i - 1] \o kids[i]
          IN F[Len(kids)])

\* Array.prototype.join: the elements with the separator between them
RECURSIVE join(_, _)
join(parts, sep) ==
  IF Len(parts) <= 1 THEN parts
  ELSE <<Head(parts), sep>> \o join(Tail(parts), sep)

Newline == [kind |-> "newline"]

\* the block format() pushes for the pending dialog
dialogNotice(dialog) ==
  [kind |-> "dialog", type |-> dialog.type, message |-> dialog.id,
   defaultValue |-> IF dialog.type = "prompt" THEN Some("default") ELSE None]

\* the lines format() pushes for the page list
pagesSection(c, b) ==
  <<[kind |-> "pagesHeading"]>> \o
    [i \in DOMAIN c.pages |->
       [kind |-> "page", id |-> c.pageIdMap[c.pages[i]], url |-> url(b, c.pages[i]),
        selected |-> c.selectedPage = c.pages[i]]]

\* format() with the page list put before the dialog notice and the images
\* attached last first
format_reordered(toolName, r, c, b, formattedSnapshot) ==
  LET lines == [i \in DOMAIN r.textResponseLines |-> [kind |-> "line", text |-> r.textResponseLines[i]]]
      parts == <<[kind |-> "header", tool |-> toolName]>> \o lines
               \o (IF r.includePages THEN pagesSection(c, b) ELSE <<>>)
               \o (IF c.dialog # None THEN <<dialogNotice(c.dialog[1])>> ELSE <<>>)
               \o (IF formattedSnapshot # None
                   THEN <<[kind |-> "snapshotHeading"], [kind |-> "snapshot", text |-> formattedSnapshot[1]]>>
                   ELSE <<>>)
      n == Len(r.images)
  IN <<[type |-> "text", text |-> join(parts, Newline)]>>
     \o [i \in 1..n |-> [type |-> "image", image |-> r.images[n + 1 - i]]]

\* format() without the test of context.getDialog()
format_alwaysNotice(toolName, r, c, b, formattedSnapshot) ==
  LET lines == [i \in DOMAIN r.textResponseLines |-> [kind |-> "line", text |-> r.textResponseLines[i]]]
      shown == IF c.dialog # None THEN c.dialog[1] ELSE [id |-> 0, page |-> NoPage, type |-> "alert"]
      parts == <<[kind |-> "header", tool |-> toolName]>> \o lines
               \o <<dialogNotice(shown)>>
               \o (IF r.includePages THEN pagesSection(c, b) ELSE <<>>)
               \o (IF formattedSnapshot # None
                   THEN <<[kind |-> "snapshotHeading"], [kind |-> "snapshot", text |-> formattedSnapshot[1]]>>
                   ELSE <<>>)
  IN <<[type |-> "text", text |-> join(parts, Newline)]>>
     \o [i \in DOMAIN r.images |-> [type |-> "image", image |-> r.images[i]]]

\* format(toolName, context, {formattedSnapshot}): the content blocks
format(toolName, r, c, b, formattedSnapshot) ==
  LET lines == [i \in DOMAIN r.textResponseLines |-> [kind |-> "line", text |-> r.textResponseLines[i]]]
      parts == <<[kind |-> "header", tool |-> toolName]>> \o lines
               \o (IF c.dialog # None THEN <<dialogNotice(c.dialog[1])>> ELSE <<>>)
               \o (IF r.includePages THEN pagesSection(c, b) ELSE <<>>)
               \o (IF formattedSnapshot # None
                   THEN <<[kind |-> "snapshotHeading"], [kind |-> "snapshot", text |-> formattedSnapshot[1]]>>
                   ELSE <<>>)
  IN <<[type |-> "text", text |-> join(parts, Newline)]>>
     \o [i \in DOMAIN r.images |-> [type |-> "image", image |-> r.images[i]]]

\* handle(toolName, context): rootNode is the reply of page.accessibility.snapshot
\* and written tells whether fs.writeFile succeeds; yields the context it leaves
\* and either the error it rejects with or the content blocks
handle(toolName, r, c, b, rootNode, written) ==
  LET c1 == IF r.includePages THEN createPagesSnapshot(c, b) ELSE c
  IN IF r.snapshotParams = None
     THEN [ctx |-> c1, err |-> OK, content |-> format(toolName, r, c1, b, None)]
     ELSE LET params == r.snapshotParams[1]
              sel == getSelectedPage(c1, b)
              c2 == installTextSnapshot(c1, rootNode, params.verbose, sel.page)
              snapshot == c2.textSnapshot
          IN IF sel.err # OK
             THEN [ctx |-> c1, err |-> sel.err, content |-> <<>>]
             ELSE IF snapshot = None
             THEN [ctx |-> c2, err |-> OK, content |-> format(toolName, r, c2, b, None)]
             ELSE IF params.filePath = None
             THEN [ctx |-> c2, err |-> OK,
                   content |-> format(toolName, r, c2, b, Some(formatSnapshotNode(snapshot[1].root)))]
             ELSE IF ~written
             THEN [ctx |-> c2, err |-> IO_ERROR, content |-> <<>>]
             ELSE [ctx |-> c2, err |-> OK,
                   content |-> format(toolName, r, c2, b, Some(<<"Saved snapshot to ", params.filePath[1], ".">>))]

\* ------------------------------------------------------------ the browser
\* page.close(): the page leaves browser.pages() and isClosed() turns true
browserClose(b, page) ==
  [b EXCEPT !.open = SelectSeq(@, LAMBDA p : p # page), !.closed = @ \cup {page}]

\* a new page handle; devtools tells whether its url starts with devtools://
browserOpen(b, devtools) ==
  [b EXCEPT !.open = Append(@, b.nextHandle),
            !.nextHandle = @ + 1,
            !.devtools = IF devtools THEN @ \cup {b.nextHandle} ELSE @]

\* the kinds of dialog a page raises (Dialog.type())
DialogTypes == {"alert", "prompt"}

\* --------------------------------------------------------------- the run
\* the fields of a new McpContext
newContext(experimentalDevToolsDebugging) ==
  [pages |-> <<>>,
   selectedPage |-> NoPage,
   textSnapshot |-> None,
   dialog |-> None,
   pageIdMap |-> <<>>,
   nextPageId |-> 1,
   nextSnapshotId |-> 1,
   listeners |-> [p \in Pages |-> 0],
   experimentalDevToolsDebugging |-> experimentalDevToolsDebugging]

UidInputs ==
  {MakeUid(s, q) : s \in 1..MaxCaptures, q \in 0..MaxNodes} \cup {NumToString(1)}

\* McpContext.from(): the constructor followed by #init(), on a browser with
\* n pages of which dev are devtools pages; second tells whether from() is called
\* once more on the same browser
InitWith(counts, devsets, debugging, second) ==
  \E n \in counts, dev \in devsets, dbg \in debugging :
    /\ dev \subseteq 1..n
    /\ browser = [open |-> [i \in 1..n |-> i], closed |-> {}, devtools |-> dev,
                  nextHandle |-> n + 1, nextDialog |-> 1]
    /\ ctx = createPagesSnapshot(newContext(dbg), browser)
    /\ inflight = <<>>
    /\ last = [op |-> "from", err |-> OK, arg |-> NoPage, pre |-> NoPage]
    /\ captures = <<>>
    /\ delivered = <<>>
    /\ response = newResponse
    /\ peer = IF second THEN Some(createPagesSnapshot(newContext(dbg), browser)) ELSE None

Init == InitWith(0..MaxPages, SUBSET Pages, BOOLEAN, FALSE)

InitSnapshot == InitWith(1..SnapshotPages, {{}}, {FALSE}, FALSE)

InitDialog == InitWith(1..DialogPages, {{}}, {FALSE}, FALSE)

\* a page opens without the session asking for it (popup, devtools window)
BrowserOpens ==
  \E dev \in BOOLEAN :
    /\ browser.nextHandle <= MaxPages
    /\ browser' = browserOpen(browser, dev)
    /\ last' = [op |-> "browserOpens", err |-> OK, arg |-> browser.nextHandle, pre |-> NoPage]
    /\ UNCHANGED <<ctx, inflight, captures, delivered, response, peer>>

\* a page is closed without the session asking for it
BrowserCloses ==
  \E p \in Range(browser.open) :
    /\ browser' = browserClose(browser, p)
    /\ last' = [op |-> "browserCloses", err |-> OK, arg |-> p, pre |-> NoPage]
    /\ UNCHANGED <<ctx, inflight, captures, delivered, response, peer>>

\* a dialog event that reaches the handler whatever page raised it
DialogEventUpTo_anyPage(limit) ==
  \E p \in Range(browser.open), type \in DialogTypes :
    /\ browser.nextDialog <= limit
    /\ browser' = [browser EXCEPT !.nextDialog = @ + 1]
    /\ LET dialog == [id |-> browser.nextDialog, page |-> p, type |-> type]
       IN /\ ctx' = dialogHandler(ctx, dialog)
          /\ delivered' = Append(delivered, dialog)
    /\ last' = [op |-> "dialogEvent", err |-> OK, arg |-> p, pre |-> ctx.dialog]
    /\ UNCHANGED <<inflight, captures, response, peer>>

\* an open page raises a dialog of one of types; the emitter calls the handlers
\* attached to it
DialogEventOf(limit, types) ==
  \E p \in Range(browser.open), type \in types :
    /\ browser.nextDialog <= limit
    /\ browser' = [browser EXCEPT !.nextDialog = @ + 1]
    /\ LET dialog == [id |-> browser.nextDialog, page |-> p, type |-> type]
       IN IF ctx.listeners[p] > 0
          THEN /\ ctx' = dialogHandler(ctx, dialog)
               /\ delivered' = Append(delivered, dialog)
          ELSE UNCHANGED <<ctx, delivered>>
    /\ last' = [op |-> "dialogEvent", err |-> OK, arg |-> p, pre |-> ctx.dialog]
    /\ UNCHANGED <<inflight, captures, response, peer>>

DialogEventUpTo(limit) == DialogEventOf(limit, DialogTypes)

DialogEvent == DialogEventUpTo(MaxDialogs)

\* newPage() returning the page without selecting it
NewPage_noSelect ==
  /\ browser.nextHandle <= MaxPages
  /\ LET page == browser.nextHandle
         b1 == browserOpen(browser, FALSE)
     IN /\ browser' = b1
        /\ ctx' = createPagesSnapshot(ctx, b1)
        /\ last' = [op |-> "newPage", err |-> OK, arg |-> page, pre |-> ctx.selectedPage]
  /\ UNCHANGED <<inflight, captures, delivered, response, peer>>

\* newPage() while the browser has created fewer than limit handles; last.arg
\* is the page it returns
NewPageUpTo(limit) ==
  /\ browser.nextHandle <= limit
  /\ LET page == browser.nextHandle
         b1 == browserOpen(browser, FALSE)
         c1 == createPagesSnapshot(ctx, b1)
         r == selectPage(c1, b1, page)
     IN /\ browser' = b1
        /\ ctx' = r.ctx
        /\ last' = [op |-> "newPage", err |-> r.err, arg |-> page, pre |-> ctx.selectedPage]
  /\ UNCHANGED <<inflight, captures, delivered, response, peer>>

NewPage == NewPageUpTo(MaxPages)

\* closePage(pageId) for a page id among pageIds
ClosePageAmong(pageIds) ==
  \E pageId \in pageIds :
    LET r == closePage(ctx, pageId)
    IN /\ IF r.err # OK
          THEN /\ last' = [op |-> "closePage", err |-> r.err, arg |-> pageId, pre |-> NoPage]
               /\ UNCHANGED browser
          ELSE IF r.page \in browser.closed
          THEN /\ last' = [op |-> "closePage", err |-> TARGET_CLOSED, arg |-> pageId, pre |-> NoPage]
               /\ UNCHANGED browser
          ELSE /\ last' = [op |-> "closePage", err |-> OK, arg |-> pageId, pre |-> NoPage]
               /\ browser' = browserClose(browser, r.page)
       /\ UNCHANGED <<ctx, inflight, captures, delivered, response, peer>>

ClosePage == ClosePageAmong(1..MaxPages)

Refresh ==
  /\ ctx' = createPagesSnapshot(ctx, browser)
  /\ last' = [op |-> "createPagesSnapshot", err |-> OK, arg |-> NoPage, pre |-> ctx.selectedPage]
  /\ UNCHANGED <<browser, inflight, captures, delivered, response, peer>>

SelectPage ==
  \E p \in Range(ctx.pages) :
    LET r == selectPage(ctx, browser, p)
    IN /\ ctx' = r.ctx
       /\ last' = [op |-> "selectPage", err |-> r.err, arg |-> p, pre |-> ctx.selectedPage]
       /\ UNCHANGED <<browser, inflight, captures, delivered, response, peer>>

GetSelectedPage ==
  LET r == getSelectedPage(ctx, browser)
  IN /\ last' = [op |-> "getSelectedPage", err |-> r.err, arg |-> r.page, pre |-> NoPage]
     /\ UNCHANGED <<browser, ctx, inflight, captures, delivered, response, peer>>

GetDialog ==
  /\ last' = [op |-> "getDialog", err |-> OK, arg |-> ctx.dialog, pre |-> NoPage]
  /\ UNCHANGED <<browser, ctx, inflight, captures, delivered, response, peer>>

ClearDialog ==
  /\ ctx' = clearDialog(ctx)
  /\ last' = [op |-> "clearDialog", err |-> OK, arg |-> NoPage, pre |-> ctx.dialog]
  /\ UNCHANGED <<browser, inflight, captures, delivered, response, peer>>

\* createTextSnapshot() that gives the session an empty snapshot with the next
\* snapshotId before it awaits the browser
CaptureStartUpTo_installsEarly(limit) ==
  \E verbose \in {FALSE} :
    LET r == getSelectedPage(ctx, browser)
    IN /\ r.err = OK
       /\ Len(inflight) < limit
       /\ inflight' = Append(inflight, [page |-> r.page, verbose |-> verbose])
       /\ ctx' = [ctx EXCEPT !.textSnapshot =
                    Some([root |-> [id |-> MakeUid(ctx.nextSnapshotId, 0), children |-> <<>>],
                          snapshotId |-> NumToString(ctx.nextSnapshotId),
                          idToNode |-> <<>>,
                          hasSelectedElement |-> FALSE,
                          verbose |-> verbose,
                          page |-> r.page])]
       /\ last' = [op |-> "accessibility.snapshot", err |-> OK, arg |-> None, pre |-> NoPage]
       /\ UNCHANGED <<browser, captures, delivered, response, peer>>

\* createTextSnapshot() up to its await (verbose = false, the default), with at
\* most limit calls suspended there
CaptureStartUpTo(limit) ==
  \E verbose \in {FALSE} :
    LET r == getSelectedPage(ctx, browser)
    IN /\ IF r.err # OK
          THEN /\ last' = [op |-> "createTextSnapshot", err |-> r.err, arg |-> None, pre |-> NoPage]
               /\ UNCHANGED inflight
          ELSE /\ Len(inflight) < limit
               /\ inflight' = Append(inflight, [page |-> r.page, verbose |-> verbose])
               /\ last' = [op |-> "accessibility.snapshot", err |-> OK, arg |-> None, pre |-> NoPage]
       /\ UNCHANGED <<browser, ctx, captures, delivered, response, peer>>

CaptureStart == CaptureStartUpTo(MaxInflight)

\* createTextSnapshot() that takes its snapshotId from the number of calls still
\* suspended, so that the call that started first gets the smaller id
CaptureFinishWith_idByStart(limit, trees) ==
  \E i \in DOMAIN inflight :
    LET call == inflight[i]
        rest == [j \in 1..(Len(inflight) - 1) |-> IF j < i THEN inflight[j] ELSE inflight[j + 1]]
    IN /\ inflight' = rest
       /\ call.page \notin browser.closed
       /\ \E rootNode \in {Some(t) : t \in trees} :
            LET c1 == installTextSnapshot([ctx EXCEPT !.nextSnapshotId = @ + i - 1],
                                          rootNode, call.verbose, call.page)
            IN /\ ctx.nextSnapshotId <= limit
               /\ ctx' = [c1 EXCEPT !.nextSnapshotId = ctx.nextSnapshotId + 1]
               /\ captures' = Append(captures, c1.textSnapshot[1].snapshotId)
               /\ last' = [op |-> "createTextSnapshot", err |-> OK, arg |-> rootNode, pre |-> NoPage]
       /\ UNCHANGED <<browser, delivered, response, peer>>

\* createTextSnapshot() from the reply of the browser on, with at most limit
\* successful captures and the replies drawn from trees
CaptureFinishWith(limit, trees) ==
  \E i \in DOMAIN inflight :
    LET call == inflight[i]
        rest == [j \in 1..(Len(inflight) - 1) |-> IF j < i THEN inflight[j] ELSE inflight[j + 1]]
    IN /\ inflight' = rest
       /\ IF call.page \in browser.closed
          THEN /\ last' = [op |-> "createTextSnapshot", err |-> TARGET_CLOSED, arg |-> None, pre |-> NoPage]
               /\ UNCHANGED <<ctx, captures>>
          ELSE \E rootNode \in {None} \cup {Some(t) : t \in trees} :
                 /\ rootNode # None => ctx.nextSnapshotId <= limit
                 /\ ctx' = installTextSnapshot(ctx, rootNode, call.verbose, call.page)
                 /\ captures' = IF rootNode = None THEN captures
                                ELSE Append(captures, ctx'.textSnapshot[1].snapshotId)
                 /\ last' = [op |-> "createTextSnapshot", err |-> OK, arg |-> rootNode, pre |-> NoPage]
       /\ UNCHANGED <<browser, delivered, response, peer>>

CaptureFinish == CaptureFinishWith(MaxCaptures, AXTrees)

\* getElementByUid(uid) for a uid among uids; last.pre keeps what
\* node.elementHandle() yielded, when the call got that far
GetElementByUidAmong(uids) ==
  \E uid \in uids, attached \in BOOLEAN :
    LET r == getElementByUid(ctx, uid, attached)
        asked == getElementByUid(ctx, uid, TRUE).err = OK
    IN /\ ~asked => attached
       /\ last' = [op |-> "getElementByUid", err |-> r.err, arg |-> uid,
                   pre |-> IF asked THEN Some(attached) ELSE None]
       /\ UNCHANGED <<browser, ctx, inflight, captures, delivered, response, peer>>

GetElementByUid == GetElementByUidAmong(UidInputs)

\* createTextSnapshot() with nothing running between its start and its end, with
\* at most limit successful captures and the replies drawn from trees
CaptureWhole(limit, trees) ==
  \E rootNode \in {None} \cup {Some(t) : t \in trees} :
    LET r == getSelectedPage(ctx, browser)
    IN /\ IF r.err # OK
          THEN /\ last' = [op |-> "createTextSnapshot", err |-> r.err, arg |-> None, pre |-> NoPage]
               /\ UNCHANGED <<ctx, captures>>
          ELSE /\ rootNode # None => ctx.nextSnapshotId <= limit
               /\ ctx' = installTextSnapshot(ctx, rootNode, FALSE, r.page)
               /\ captures' = IF rootNode = None THEN captures
                              ELSE Append(captures, ctx'.textSnapshot[1].snapshotId)
               /\ last' = [op |-> "createTextSnapshot", err |-> OK, arg |-> rootNode, pre |-> NoPage]
       /\ UNCHANGED <<browser, inflight, delivered, response, peer>>

\* ------------------------------------------------- the calls of a tool
ToolNames == {"test"}
LineInputs == {"Testing 1", "Testing 2"}
ImageInputs == {[data |-> "imageBase64", mimeType |-> "image/png"],
                [data |-> "imageBase64", mimeType |-> "image/jpeg"]}
SnapshotParamInputs ==
  {None, Some([verbose |-> FALSE, filePath |-> Some("snapshot.txt")])}

SetIncludePages ==
  \E value \in BOOLEAN :
    /\ response' = [response EXCEPT !.includePages = value]
    /\ last' = [op |-> "response", err |-> OK, arg |-> NoPage, pre |-> NoPage]
    /\ UNCHANGED <<browser, ctx, inflight, captures, delivered, peer>>

IncludeSnapshot ==
  \E params \in SnapshotParamInputs :
    /\ response' = includeSnapshot(response, params)
    /\ last' = [op |-> "response", err |-> OK, arg |-> NoPage, pre |-> NoPage]
    /\ UNCHANGED <<browser, ctx, inflight, captures, delivered, peer>>

AppendResponseLine ==
  \E value \in LineInputs :
    /\ Len(response.textResponseLines) + Len(response.images) < MaxParts
    /\ response' = [response EXCEPT !.textResponseLines = Append(@, value)]
    /\ last' = [op |-> "response", err |-> OK, arg |-> NoPage, pre |-> NoPage]
    /\ UNCHANGED <<browser, ctx, inflight, captures, delivered, peer>>

AttachImage ==
  \E value \in ImageInputs :
    /\ Len(response.textResponseLines) + Len(response.images) < MaxParts
    /\ response' = [response EXCEPT !.images = Append(@, value)]
    /\ last' = [op |-> "response", err |-> OK, arg |-> NoPage, pre |-> NoPage]
    /\ UNCHANGED <<browser, ctx, inflight, captures, delivered, peer>>

\* response.handle(toolName, context) at the end of a tool call; the next call
\* starts with a new McpResponse. last.pre keeps the response that was finalized
\* and the reply of the browser.
Handle ==
  \E toolName \in ToolNames, written \in BOOLEAN,
     rootNode \in {None} \cup {Some(t) : t \in TreesUpTo(ResponseNodes)} :
    LET h == handle(toolName, response, ctx, browser, rootNode, written)
        captured == /\ h.ctx.textSnapshot # ctx.textSnapshot
    IN /\ response.snapshotParams = None => (rootNode = None /\ written)
       /\ (response.snapshotParams # None /\ response.snapshotParams[1].filePath = None) => written
       /\ captured => ctx.nextSnapshotId <= ResponseCaptures
       /\ ctx' = h.ctx
       /\ captures' = IF captured THEN Append(captures, h.ctx.textSnapshot[1].snapshotId)
                      ELSE captures
       /\ last' = [op |-> "handle", err |-> h.err, arg |-> h.content,
                   pre |-> [response |-> response, rootNode |-> rootNode]]
       /\ response' = newResponse
       /\ UNCHANGED <<browser, inflight, delivered, peer>>

ResponseDialogEvent == DialogEventUpTo(ResponseDialogs)

\* createTextSnapshot() of a session whose counter is the larger of the two
\* sessions' counters and advances both
PeerCapture_sharedCounter ==
  \E rootNode \in {Some(t) : t \in TreesUpTo(PeerNodes)} :
    LET r == getSelectedPage(peer[1], browser)
        next == IF ctx.nextSnapshotId > peer[1].nextSnapshotId
                THEN ctx.nextSnapshotId ELSE peer[1].nextSnapshotId
        p1 == installTextSnapshot([peer[1] EXCEPT !.nextSnapshotId = next], rootNode, FALSE, r.page)
    IN /\ peer # None
       /\ r.err = OK
       /\ peer[1].nextSnapshotId <= PeerCaptures
       /\ peer' = Some(p1)
       /\ ctx' = [ctx EXCEPT !.nextSnapshotId = p1.nextSnapshotId]
       /\ last' = [op |-> "peer.createTextSnapshot", err |-> OK, arg |-> rootNode, pre |-> NoPage]
       /\ UNCHANGED <<browser, inflight, captures, delivered, response>>

\* createTextSnapshot() of the second session, start to end
PeerCapture ==
  \E rootNode \in {None} \cup {Some(t) : t \in TreesUpTo(PeerNodes)} :
    LET r == getSelectedPage(peer[1], browser)
    IN /\ peer # None
       /\ r.err = OK
       /\ rootNode # None => peer[1].nextSnapshotId <= PeerCaptures
       /\ peer' = Some(installTextSnapshot(peer[1], rootNode, FALSE, r.page))
       /\ last' = [op |-> "peer.createTextSnapshot", err |-> OK, arg |-> rootNode, pre |-> NoPage]
       /\ UNCHANGED <<browser, ctx, inflight, captures, delivered, response>>

Next ==
  \/ BrowserOpens
  \/ BrowserCloses
  \/ DialogEvent
  \/ NewPage
  \/ ClosePage
  \/ Refresh
  \/ SelectPage
  \/ GetSelectedPage
  \/ GetDialog
  \/ ClearDialog
  \/ CaptureStart
  \/ CaptureFinish
  \/ GetElementByUid
  \/ SetIncludePages
  \/ IncludeSnapshot
  \/ AppendResponseLine
  \/ AttachImage
  \/ Handle
  \/ PeerCapture

Spec == Init /\ [][Next]_vars

\* the page registry alone
NextPages ==
  \/ BrowserOpens
  \/ BrowserCloses
  \/ NewPage
  \/ ClosePage
  \/ Refresh
  \/ SelectPage
  \/ GetSelectedPage

SpecPages == Init /\ [][NextPages]_vars

\* the calls of the page registry on a browser nobody else touches
NextCalls ==
  \/ NewPage
  \/ ClosePage
  \/ Refresh
  \/ SelectPage

SpecCalls == Init /\ [][NextCalls]_vars

\* captures and uid resolution on a session whose pages come and go
NextSnapshot ==
  \/ BrowserCloses
  \/ SelectPage
  \/ CaptureStart
  \/ CaptureFinish
  \/ GetElementByUid

SpecSnapshot == InitSnapshot /\ [][NextSnapshot]_vars

\* dialog capture on a session whose pages come and go
NextDialog ==
  \/ BrowserCloses
  \/ Refresh
  \/ SelectPage
  \/ DialogEvent
  \/ GetDialog
  \/ ClearDialog

SpecDialog == InitDialog /\ [][NextDialog]_vars

\* the responses of tool calls on a session with dialogs and captures
NextResponse ==
  \/ ResponseDialogEvent
  \/ ClearDialog
  \/ SetIncludePages
  \/ IncludeSnapshot
  \/ AppendResponseLine
  \/ AttachImage
  \/ Handle

InitResponse == InitWith({ResponsePages}, {{}}, {FALSE}, FALSE)

SpecResponse == InitResponse /\ [][NextResponse]_vars

\* the captures of two sessions of one process
NextSessions ==
  \/ CaptureStart
  \/ CaptureFinish
  \/ PeerCapture

InitSessions == InitWith(1..SnapshotPages, {{}}, {FALSE}, TRUE)

SpecSessions == InitSessions /\ [][NextSessions]_vars

\* captures that overlap at their await point, with dialog events and readers
OverlapStart == CaptureStartUpTo(OverlapInflight)

OverlapFinish == CaptureFinishWith(OverlapCaptures, TreesUpTo(OverlapNodes))

OverlapDialogEvent == DialogEventUpTo(OverlapDialogs)

NextOverlap ==
  \/ OverlapStart
  \/ OverlapFinish
  \/ OverlapDialogEvent
  \/ GetElementByUid

SpecOverlap == InitSnapshot /\ [][NextOverlap]_vars

\* every call of the session next to the others, on few pages
FrameNewPage == NewPageUpTo(FrameHandles)

FrameClosePage == ClosePageAmong(1..FrameHandles)

FrameCapture == CaptureWhole(FrameCaptures, Trees(1))

FrameGetElementByUid == GetElementByUidAmong({MakeUid(s, 0) : s \in 1..FrameCaptures})

FrameDialogEvent == DialogEventOf(FrameDialogs, {"alert"})

NextFrame ==
  \/ FrameNewPage
  \/ FrameClosePage
  \/ Refresh
  \/ SelectPage
  \/ FrameCapture
  \/ FrameGetElementByUid
  \/ FrameDialogEvent
  \/ ClearDialog
  \/ Handle

InitFrame == InitWith({FramePages}, {{}}, {FALSE}, FALSE)

SpecFrame == InitFrame /\ [][NextFrame]_vars

TypeOK ==
  /\ ctx.selectedPage \in Pages \cup {NoPage}
  /\ Len(ctx.textSnapshot) <= 1
  /\ Len(ctx.dialog) <= 1

\* ------------------------------------------------------------ properties
\* the number a decimal string denotes
RECURSIVE ParseNat(_)
ParseNat(str) ==
  IF str = <<>> THEN 0
  ELSE 10 * ParseNat(SubSeq(str, 1, Len(str) - 1)) + (IndexOf(Digits, str[Len(str)]) - 1)

\* the ids of a stamped tree, in document order
RECURSIVE TreeIds(_), ForestIds(_)
TreeIds(node) == <<node.id>> \o ForestIds(node.children)
ForestIds(f) == IF f = <<>> THEN <<>> ELSE TreeIds(Head(f)) \o ForestIds(Tail(f))

\* the snapshotIds of the captures before the latest one
EarlierCaptures == {captures[i] : i \in 1..(Len(captures) - 1)}

\* C1: once a capture has succeeded, getElementByUid fails with the stale-snapshot
\* error on every uid whose prefix is the snapshotId of a strictly earlier capture,
\* and with the not-found error on every uid that has the latest capture's
\* snapshotId as prefix but is not a key of its snapshot.
C1_StaleThenNotFound ==
  (last.op = "getElementByUid" /\ captures # <<>>) =>
    /\ SplitPrefix(last.arg) \in EarlierCaptures => last.err = STALE_SNAPSHOT
    /\ (/\ SplitPrefix(last.arg) = captures[Len(captures)]
        /\ last.arg \notin DOMAIN ctx.textSnapshot[1].idToNode) => last.err = NO_SUCH_ELEMENT

C1_Witness ==
  /\ last.op = "getElementByUid"
  /\ Len(captures) >= 2
  /\ SplitPrefix(last.arg) \in EarlierCaptures
  /\ last.err = STALE_SNAPSHOT

\* C5: the snapshotIds of the successful captures of a session go up by exactly
\* one from each capture to the next, so none is produced twice.
C5_SnapshotIdsIncrease ==
  /\ \A i \in 2..Len(captures) : ParseNat(captures[i]) = ParseNat(captures[i - 1]) + 1
  /\ \A i, j \in DOMAIN captures : i # j => captures[i] # captures[j]
  /\ ctx.textSnapshot # None =>
       /\ captures # <<>>
       /\ ctx.textSnapshot[1].snapshotId = captures[Len(captures)]

C5_Witness ==
  /\ Len(captures) >= 3
  /\ last.op = "createTextSnapshot"
  /\ last.err = OK
  /\ last.arg # None

\* C6: the uids of the nodes of a snapshot all have the snapshot's snapshotId as
\* prefix and are pairwise distinct, and idToNode maps exactly these uids, each to
\* the node that carries it: one entry per node of the captured tree.
C6_UidsOfOneCapture ==
  ctx.textSnapshot # None =>
    LET snap == ctx.textSnapshot[1]
        ids == TreeIds(snap.root)
    IN /\ \A i \in DOMAIN ids : SplitPrefix(ids[i]) = snap.snapshotId
       /\ \A i, j \in DOMAIN ids : i # j => ids[i] # ids[j]
       /\ DOMAIN snap.idToNode = Range(ids)
       /\ Cardinality(DOMAIN snap.idToNode) = Len(ids)
       /\ \A u \in DOMAIN snap.idToNode : snap.idToNode[u].id = u
       /\ (last.op = "createTextSnapshot" /\ last.err = OK /\ last.arg # None) =>
            Len(ids) = NodeCount(last.arg[1])

C6_Witness ==
  /\ last.op = "createTextSnapshot"
  /\ last.err = OK
  /\ last.arg # None
  /\ Len(last.arg[1].children) = 2
  /\ Cardinality(DOMAIN ctx.textSnapshot[1].idToNode) = 3

\* the pages a refresh would list: open in the browser and passing the filter
VisiblePages(c, b) == SelectSeq(b.open, LAMBDA p : isVisible(c, b, p))

\* the pages of a sequence that carry page id pageId
WithId(c, pages, pageId) ==
  {p \in Range(pages) : p \in DOMAIN c.pageIdMap /\ c.pageIdMap[p] = pageId}

\* C2: closePage on the id of the only visible page fails with the last-page
\* error; with two or more visible pages, closePage on the id of a visible page
\* succeeds and leaves exactly one fewer visible page.
C2_ClosePageByCount ==
  [][last'.op = "closePage" =>
       LET visible == VisiblePages(ctx, browser)
       IN WithId(ctx, visible, last'.arg) # {} =>
            /\ Len(visible) = 1 => last'.err = CLOSE_PAGE_ERROR
            /\ Len(visible) >= 2 =>
                 /\ last'.err = OK
                 /\ Len(VisiblePages(ctx', browser')) = Len(visible) - 1]_vars

\* C3: a closePage that succeeds never closes the last page open in the browser:
\* after it at least one page is open.
C3_LastOpenPageStays ==
  (last.op = "closePage" /\ last.err = OK) => browser.open # <<>>

\* C4: page ids are positive and below the counter, no two pages have the same
\* id, and no step changes or removes the id of a page that has one, so the id
\* of a closed page never goes to a later page.
C4_PageIdsStable ==
  /\ [](/\ \A p \in DOMAIN ctx.pageIdMap :
             ctx.pageIdMap[p] >= 1 /\ ctx.pageIdMap[p] < ctx.nextPageId
        /\ \A p, q \in DOMAIN ctx.pageIdMap :
             p # q => ctx.pageIdMap[p] # ctx.pageIdMap[q])
  /\ [][/\ ctx'.nextPageId >= ctx.nextPageId
        /\ \A p \in DOMAIN ctx.pageIdMap :
             p \in DOMAIN ctx'.pageIdMap /\ ctx'.pageIdMap[p] = ctx.pageIdMap[p]
        /\ \A p \in (DOMAIN ctx'.pageIdMap) \ (DOMAIN ctx.pageIdMap) :
             ctx'.pageIdMap[p] >= ctx.nextPageId]_vars

C4_Witness ==
  \E p \in browser.closed \cap DOMAIN ctx.pageIdMap :
    \E q \in Range(ctx.pages) \ browser.closed :
      /\ q > p
      /\ ctx.pageIdMap[q] > ctx.pageIdMap[p]
      /\ ctx.pageIdMap[q] # q
      /\ last.op = "createPagesSnapshot"

\* C7: the dialog handler is attached to at most one page, once, and that page is
\* the selected page; after selectPage(B) it is on B and on no other page.
C7_OneListener ==
  /\ \A p \in Pages : ctx.listeners[p] <= 1
  /\ \A p \in Pages : ctx.listeners[p] >= 1 => p = ctx.selectedPage
  /\ last.op = "selectPage" =>
       /\ ctx.selectedPage = last.arg
       /\ ctx.listeners[last.arg] = 1
       /\ last.pre # NoPage /\ last.pre # last.arg => ctx.listeners[last.pre] = 0

C7_Witness ==
  /\ last.op = "selectPage"
  /\ last.pre # NoPage
  /\ last.pre # last.arg
  /\ ctx.listeners[last.arg] = 1
  /\ ctx.listeners[last.pre] = 0

\* C9: getSelectedPage throws 'No page selected' when no page is selected, the
\* stale-selection error when the selected page is closed, and returns the
\* selected page otherwise; the page it returns is never closed.
C9_GetSelectedPage ==
  last.op = "getSelectedPage" =>
    /\ ctx.selectedPage = NoPage => last.err = "No page selected"
    /\ (ctx.selectedPage # NoPage /\ ctx.selectedPage \in browser.closed) =>
         last.err = SELECTED_PAGE_CLOSED
    /\ (ctx.selectedPage # NoPage /\ ctx.selectedPage \notin browser.closed) =>
         last.err = OK /\ last.arg = ctx.selectedPage
    /\ last.err = OK => last.arg \in Range(browser.open) /\ last.arg \notin browser.closed

C9_Witness ==
  /\ last.op = "getSelectedPage"
  /\ last.err = SELECTED_PAGE_CLOSED
  /\ ctx.selectedPage \in browser.closed

\* C10: after a refresh (the one of session creation included) that lists at
\* least one page, the selected page is in the list: it is the page selected
\* before when that page is listed, and the first listed page otherwise.
C10_RefreshSelects ==
  (last.op \in {"createPagesSnapshot", "from"} /\ ctx.pages # <<>>) =>
    /\ ctx.selectedPage \in Range(ctx.pages)
    /\ ctx.selectedPage = (IF last.pre \in Range(ctx.pages) THEN last.pre ELSE ctx.pages[1])

C10_Witness ==
  /\ last.op = "createPagesSnapshot"
  /\ last.pre # NoPage
  /\ last.pre \notin Range(ctx.pages)
  /\ Len(ctx.pages) >= 2
  /\ ctx.selectedPage = ctx.pages[1]

\* C8: at most one dialog is pending, and it is the one the handler received
\* last: a dialog event replaces the pending dialog, and getDialog returns the
\* pending one, never an earlier one.
C8_LatestDialog ==
  /\ Len(ctx.dialog) <= 1
  /\ ctx.dialog # None => delivered # <<>> /\ ctx.dialog[1] = delivered[Len(delivered)]
  /\ (last.op = "dialogEvent" /\ ctx.listeners[last.arg] > 0) =>
       ctx.dialog # None /\ ctx.dialog # last.pre
  /\ last.op = "getDialog" => last.arg = ctx.dialog

C8_Witness ==
  /\ last.op = "dialogEvent"
  /\ Len(delivered) >= 2
  /\ last.pre # None
  /\ ctx.dialog # None
  /\ ctx.dialog # last.pre

\* C11 as claimed: a refresh that lists no page while a page was selected leaves
\* no page selected.
C11_SelectionEmptied ==
  (last.op = "createPagesSnapshot" /\ ctx.pages = <<>> /\ last.pre # NoPage) =>
    ctx.selectedPage = NoPage

\* C11: a refresh that lists no page leaves the selection as it was, with the
\* dialog handler still on the selected page; as long as that page is the
\* selected one and closed, getSelectedPage throws the stale-selection error.
C11_SelectionKept ==
  /\ (last.op = "createPagesSnapshot" /\ ctx.pages = <<>>) =>
       /\ ctx.selectedPage = last.pre
       /\ last.pre # NoPage => ctx.listeners[last.pre] = 1
  /\ (/\ last.op = "getSelectedPage"
      /\ ctx.selectedPage # NoPage
      /\ ctx.selectedPage \in browser.closed) => last.err = SELECTED_PAGE_CLOSED

C11_Witness ==
  /\ last.op = "getSelectedPage"
  /\ ctx.pages = <<>>
  /\ browser.open = <<>>
  /\ ctx.selectedPage # NoPage
  /\ last.err = SELECTED_PAGE_CLOSED

\* the text block of the content a finalize call returned
TextOf(content) == content[1].text

\* the positions of the parts of one kind in a composed text
PartsOfKind(text, kind) == {i \in DOMAIN text : text[i].kind = kind}

\* C12: a finalized response carries exactly one dialog notice, that of the
\* pending dialog, when a dialog is pending at finalize time, and no dialog
\* notice when none is pending (none was raised, or the last one was cleared).
C12_DialogNotice ==
  (last.op = "handle" /\ last.err = OK) =>
    LET text == TextOf(last.arg)
        notices == PartsOfKind(text, "dialog")
    IN /\ ctx.dialog # None =>
            /\ Cardinality(notices) = 1
            /\ \A i \in notices : text[i] = dialogNotice(ctx.dialog[1])
       /\ ctx.dialog = None => notices = {}

C12_Witness ==
  /\ last.op = "handle"
  /\ last.err = OK
  /\ ctx.dialog # None
  /\ delivered # <<>>
  /\ Cardinality(PartsOfKind(TextOf(last.arg), "dialog")) = 1

\* C13: a finalize call during which the browser returns no accessibility tree
\* yields a response without snapshot section, and a text that is the header
\* line alone when there are no lines, no pages and no dialog to show, whether
\* or not a snapshot was asked for and whether or not the session holds an
\* earlier snapshot.
C13_NoTreeNoSnapshotSection ==
  (last.op = "handle" /\ last.err = OK /\ last.pre.rootNode = None) =>
    LET text == TextOf(last.arg)
        r == last.pre.response
    IN /\ PartsOfKind(text, "snapshotHeading") = {}
       /\ PartsOfKind(text, "snapshot") = {}
       /\ (r.textResponseLines = <<>> /\ ~r.includePages /\ ctx.dialog = None) =>
            text = <<[kind |-> "header", tool |-> "test"]>>

\* the parts of a composed text, without the separators join put between them
Unjoin(text) == [i \in 1..((Len(text) + 1) \div 2) |-> text[2 * i - 1]]

\* the place of a part's section in the order of the sections
SectionRank(part) ==
  CASE part.kind = "header" -> 0
    [] part.kind = "line" -> 1
    [] part.kind = "dialog" -> 2
    [] part.kind \in {"pagesHeading", "page"} -> 3
    [] part.kind \in {"snapshotHeading", "snapshot"} -> 4
    [] OTHER -> 5

\* C14: a finalized response is the composed text block followed by the
\* attached images in attachment order; the text is, in this order, the header
\* line, the appended lines in append order, the dialog notice if a dialog is
\* pending, the pages section if pages were asked for, and the snapshot section
\* if one was produced, joined by line breaks.
C14_BlockOrder ==
  (last.op = "handle" /\ last.err = OK) =>
    LET content == last.arg
        r == last.pre.response
        text == TextOf(content)
        parts == Unjoin(text)
        lines == SelectSeq(parts, LAMBDA q : q.kind = "line")
    IN /\ content[1].type = "text"
       /\ Len(content) = 1 + Len(r.images)
       /\ \A i \in DOMAIN r.images : content[i + 1] = [type |-> "image", image |-> r.images[i]]
       /\ text = join(parts, Newline)
       /\ parts[1] = [kind |-> "header", tool |-> "test"]
       /\ \A i \in DOMAIN parts : i > 1 => parts[i].kind \notin {"header", "newline"}
       /\ \A i, j \in DOMAIN parts : i < j => SectionRank(parts[i]) <= SectionRank(parts[j])
       /\ lines = [i \in DOMAIN r.textResponseLines |-> [kind |-> "line", text |-> r.textResponseLines[i]]]
       /\ (PartsOfKind(parts, "dialog") # {}) = (ctx.dialog # None)
       /\ (PartsOfKind(parts, "pagesHeading") # {}) = r.includePages
       /\ Cardinality(PartsOfKind(parts, "page")) = IF r.includePages THEN Len(ctx.pages) ELSE 0
       /\ PartsOfKind(parts, "snapshotHeading") # {} => r.snapshotParams # None

C14_Witness ==
  /\ last.op = "handle"
  /\ last.err = OK
  /\ Len(last.arg) = 2
  /\ Len(last.pre.response.textResponseLines) = 1
  /\ \A kind \in {"dialog", "pagesHeading", "page", "snapshotHeading", "snapshot"} :
       PartsOfKind(TextOf(last.arg), kind) # {}

\* C15: getElementByUid fails with the no-snapshot error on every uid while no
\* capture has succeeded; once one has, it fails with the stale-snapshot error
\* when the uid's prefix is not the current snapshotId, else with the not-found
\* error when the uid is not in the current map, else with the not-found error
\* when the node yields no element, and only otherwise returns the handle.
C15_CheckOrder ==
  last.op = "getElementByUid" =>
    IF captures = <<>> THEN last.err = NO_SNAPSHOT
    ELSE LET snapshot == ctx.textSnapshot[1]
         IN /\ last.err # NO_SNAPSHOT
            /\ last.err =
                 IF SplitPrefix(last.arg) # snapshot.snapshotId THEN STALE_SNAPSHOT
                 ELSE IF last.arg \notin DOMAIN snapshot.idToNode THEN NO_SUCH_ELEMENT
                 ELSE IF last.pre = Some(FALSE) THEN NO_SUCH_ELEMENT
                 ELSE OK
            /\ last.err = OK =>
                 /\ last.arg \in DOMAIN snapshot.idToNode
                 /\ last.pre = Some(TRUE)

C15_Witness ==
  /\ last.op = "getElementByUid"
  /\ captures # <<>>
  /\ last.arg \in DOMAIN ctx.textSnapshot[1].idToNode
  /\ last.pre = Some(FALSE)
  /\ last.err = NO_SUCH_ELEMENT

\* C16: a capture for which the browser returns no tree raises no error and
\* leaves the session as it was (snapshot, idToNode and snapshotId counter), so
\* every uid that resolved before the call resolves after it.
C16_EmptyCaptureIsNoOp ==
  [][(last'.op = "createTextSnapshot" /\ last'.arg = None /\ inflight' # inflight
        /\ last'.err # TARGET_CLOSED) =>
       /\ last'.err = OK
       /\ ctx'.textSnapshot = ctx.textSnapshot
       /\ ctx'.nextSnapshotId = ctx.nextSnapshotId
       /\ ctx' = ctx
       /\ captures' = captures
       /\ \A uid \in UidInputs :
            getElementByUid(ctx, uid, TRUE).err = OK => getElementByUid(ctx', uid, TRUE).err = OK]_vars

C16_Witness ==
  /\ last.op = "createTextSnapshot"
  /\ last.err = OK
  /\ last.arg = None
  /\ captures # <<>>
  /\ ctx.textSnapshot # None
  /\ ctx.textSnapshot[1].snapshotId = captures[Len(captures)]

\* C17: when newPage returns, the page it returns is the selected page, is in
\* the page list, holds the dialog listener, and has a page id greater than
\* every page id assigned before the call.
C17_NewPageSelected ==
  [][last'.op = "newPage" =>
       LET page == last'.arg
       IN /\ last'.err = OK
          /\ ctx'.selectedPage = page
          /\ IndexOf(ctx'.pages, page) # -1
          /\ isVisible(ctx', browser', page)
          /\ ctx'.listeners[page] = 1
          /\ page \in DOMAIN ctx'.pageIdMap
          /\ \A q \in DOMAIN ctx.pageIdMap : ctx'.pageIdMap[page] > ctx.pageIdMap[q]
          /\ ctx'.pageIdMap[page] >= ctx.nextPageId]_vars

C17_Witness ==
  /\ last.op = "newPage"
  /\ last.err = OK
  /\ last.pre # NoPage
  /\ last.pre # last.arg
  /\ ctx.selectedPage = last.arg
  /\ ctx.pageIdMap[last.arg] >= 3
  /\ Len(ctx.pages) >= 2

\* the sessions of the process
Sessions == {ctx} \cup Range(peer)

\* C19 as claimed: two sessions of one process never hold snapshots with the
\* same snapshotId, so no uid of one session has the prefix of a snapshot of
\* the other.
C19_ProcessWideCounter ==
  (ctx.textSnapshot # None /\ peer[1].textSnapshot # None) =>
    /\ ctx.textSnapshot[1].snapshotId # peer[1].textSnapshot[1].snapshotId
    /\ \A uid \in DOMAIN peer[1].textSnapshot[1].idToNode :
         SplitPrefix(uid) # ctx.textSnapshot[1].snapshotId

\* C19: the snapshotId counter belongs to the session: every session starts at
\* 1, the snapshot a session holds has the id its counter gave out last, and a
\* capture advances by one the counter of the session that made it and leaves
\* the counter of the other session alone.
C19_SessionCounter ==
  /\ [](\A s \in Sessions :
          IF s.textSnapshot = None THEN s.nextSnapshotId = 1
          ELSE ParseNat(s.textSnapshot[1].snapshotId) = s.nextSnapshotId - 1)
  /\ [][/\ ctx'.nextSnapshotId \in {ctx.nextSnapshotId, ctx.nextSnapshotId + 1}
        /\ peer'[1].nextSnapshotId \in {peer[1].nextSnapshotId, peer[1].nextSnapshotId + 1}
        /\ last'.op = "peer.createTextSnapshot" => ctx' = ctx
        /\ last'.op # "peer.createTextSnapshot" => peer' = peer]_vars

C19_Witness ==
  /\ last.op = "peer.createTextSnapshot"
  /\ ctx.textSnapshot # None
  /\ peer[1].textSnapshot # None
  /\ ctx.textSnapshot[1].snapshotId = peer[1].textSnapshot[1].snapshotId
  /\ ctx.nextSnapshotId = 2
  /\ peer[1].nextSnapshotId = 2

\* C20: a dialog event on a page that is not the selected page leaves the
\* pending dialog as it was; a dialog event on the selected page makes that
\* dialog the pending one.
C20_OnlySelectedPageDialogs ==
  last.op = "dialogEvent" =>
    IF last.arg = ctx.selectedPage
    THEN /\ ctx.dialog # None
         /\ ctx.dialog[1].page = last.arg
         /\ ctx.dialog[1].id = browser.nextDialog - 1
    ELSE ctx.dialog = last.pre

C20_Witness ==
  /\ last.op = "dialogEvent"
  /\ last.arg # ctx.selectedPage
  /\ last.pre # None
  /\ ctx.dialog = last.pre
  /\ ctx.dialog[1].page = ctx.selectedPage

\* C21: the uids of the snapshot with snapshotId N are N_0, N_1, ... in document
\* order (parent before children, siblings left to right), N being the number
\* of successful captures so far; a root with two childless children carries
\* N_0, N_1, N_2; N_1 resolves while N is current, and the uid M_1 of every earlier
\* capture M fails with the stale-snapshot error.
C21_PreOrderNumbering ==
  ctx.textSnapshot # None =>
    LET snap == ctx.textSnapshot[1]
        N == ParseNat(snap.snapshotId)
        ids == TreeIds(snap.root)
    IN /\ N = Len(captures)
       /\ ids = [i \in 1..Len(ids) |-> MakeUid(N, i - 1)]
       /\ snap.root.id = MakeUid(N, 0)
       /\ (Len(snap.root.children) = 2 /\ Len(ids) = 3) =>
            /\ snap.root.children[1].id = MakeUid(N, 1)
            /\ snap.root.children[2].id = MakeUid(N, 2)
            /\ getElementByUid(ctx, MakeUid(N, 1), TRUE).err = OK
       /\ (last.op = "getElementByUid" /\ last.arg = MakeUid(N, 1) /\ last.pre = Some(TRUE)) =>
            last.err = OK
       /\ \A M \in 1..(N - 1) : getElementByUid(ctx, MakeUid(M, 1), TRUE).err = STALE_SNAPSHOT
       /\ (last.op = "getElementByUid" /\ SplitPrefix(last.arg) # snap.snapshotId) =>
            last.err = STALE_SNAPSHOT

C21_Witness ==
  /\ last.op = "getElementByUid"
  /\ last.arg = MakeUid(1, 1)
  /\ last.err = STALE_SNAPSHOT
  /\ ctx.textSnapshot # None
  /\ ctx.textSnapshot[1].snapshotId = NumToString(2)
  /\ Len(ctx.textSnapshot[1].root.children) = 2
  /\ TreeIds(ctx.textSnapshot[1].root) = <<MakeUid(2, 0), MakeUid(2, 1), MakeUid(2, 2)>>

\* a snapshot all of whose nodes are stamped with its snapshotId and mapped
CompleteSnapshot(snap) ==
  LET ids == TreeIds(snap.root)
  IN /\ DOMAIN snap.idToNode = Range(ids)
     /\ \A u \in DOMAIN snap.idToNode :
          /\ SplitPrefix(u) = snap.snapshotId
          /\ snap.idToNode[u].id = u

\* C22: in every state, also while captures are suspended at their await point
\* and dialog events or other captures run in between, the snapshot the session
\* holds is complete and all its keys carry its own snapshotId; it changes only
\* in the step that completes a capture with a tree, and then to the complete
\* snapshot of that tree.
C22_NeverPartial ==
  /\ [](ctx.textSnapshot # None => CompleteSnapshot(ctx.textSnapshot[1]))
  /\ [][ctx'.textSnapshot # ctx.textSnapshot =>
          /\ last'.op = "createTextSnapshot"
          /\ last'.err = OK
          /\ last'.arg # None
          /\ Len(inflight') = Len(inflight) - 1
          /\ CompleteSnapshot(ctx'.textSnapshot[1])
          /\ Cardinality(DOMAIN ctx'.textSnapshot[1].idToNode) = NodeCount(last'.arg[1])]_vars

C22_Witness ==
  /\ last.op = "dialogEvent"
  /\ Len(inflight) = 2
  /\ ctx.dialog # None
  /\ ctx.textSnapshot # None
  /\ Cardinality(DOMAIN ctx.textSnapshot[1].idToNode) = 2

\* C23: whenever the session holds a snapshot, its snapshotId is the largest
\* one issued so far, the counter minus one, also when captures overlap at
\* their await point and complete in any order: the ids of the snapshots
\* installed one after the other only go up.
C23_LatestIsLargest ==
  /\ ctx.textSnapshot = None => captures = <<>>
  /\ ctx.textSnapshot # None =>
       LET N == ParseNat(ctx.textSnapshot[1].snapshotId)
       IN /\ N = ctx.nextSnapshotId - 1
          /\ \A i \in DOMAIN captures : ParseNat(captures[i]) <= N
          /\ \A i, j \in DOMAIN captures : i < j => ParseNat(captures[i]) < ParseNat(captures[j])

C23_Witness ==
  /\ last.op = "createTextSnapshot"
  /\ last.err = OK
  /\ last.arg # None
  /\ inflight # <<>>
  /\ Len(captures) = 2
  /\ ctx.textSnapshot[1].snapshotId = NumToString(2)

\* the calls on the page registry
PageCalls == {"selectPage", "createPagesSnapshot", "newPage", "closePage"}

\* C24: selectPage, refresh, newPage and closePage leave the snapshot and the
\* snapshotId counter as they were; a uid of the snapshot the session holds
\* passes the no-snapshot and staleness checks of getElementByUid whichever
\* page is selected and whether or not the captured page is still open, and
\* resolves to the node captured on the page the snapshot was taken from.
C24_PageCallsKeepSnapshot ==
  /\ [][last'.op \in PageCalls =>
          /\ ctx'.textSnapshot = ctx.textSnapshot
          /\ ctx'.nextSnapshotId = ctx.nextSnapshotId]_vars
  /\ [](\A uid \in UidInputs :
          (ctx.textSnapshot # None /\ uid \in DOMAIN ctx.textSnapshot[1].idToNode) =>
            /\ getElementByUid(ctx, uid, FALSE).err \notin {NO_SNAPSHOT, STALE_SNAPSHOT}
            /\ getElementByUid(ctx, uid, TRUE) =
                 [err |-> OK, node |-> Some(ctx.textSnapshot[1].idToNode[uid])])
  /\ []((/\ last.op = "getElementByUid"
         /\ ctx.textSnapshot # None
         /\ last.arg \in DOMAIN ctx.textSnapshot[1].idToNode) =>
            last.err \notin {NO_SNAPSHOT, STALE_SNAPSHOT})

C24_Witness ==
  /\ last.op = "getElementByUid"
  /\ last.err = OK
  /\ ctx.textSnapshot # None
  /\ last.arg \in DOMAIN ctx.textSnapshot[1].idToNode
  /\ ctx.selectedPage # NoPage
  /\ ctx.textSnapshot[1].page # ctx.selectedPage
  /\ ctx.textSnapshot[1].page \notin browser.closed
  /\ ctx.selectedPage \notin browser.closed

\* C25: the pending dialog changes only in a dialog event on a page the session
\* listens to or in clearDialog; selectPage, refresh, newPage, closePage,
\* capture, getElementByUid and finalize leave it as it was, so the dialog of a
\* page that was deselected or closed since is still pending and still shown
\* on finalized responses.
C25_DialogFrame ==
  /\ [][/\ ctx'.dialog # ctx.dialog =>
             \/ last'.op = "clearDialog"
             \/ last'.op = "dialogEvent" /\ ctx.listeners[last'.arg] > 0
        /\ last'.op \in PageCalls \cup {"createTextSnapshot", "getElementByUid", "handle"} =>
             ctx'.dialog = ctx.dialog]_vars
  /\ []((last.op = "handle" /\ last.err = OK /\ ctx.dialog # None) =>
          \E i \in DOMAIN TextOf(last.arg) : TextOf(last.arg)[i] = dialogNotice(ctx.dialog[1]))

C25_Witness ==
  /\ last.op = "handle"
  /\ last.err = OK
  /\ ctx.dialog # None
  /\ ctx.dialog[1].page \in browser.closed
  /\ ctx.selectedPage # NoPage
  /\ ctx.selectedPage # ctx.dialog[1].page
  /\ PartsOfKind(TextOf(last.arg), "dialog") # {}

\* C26: selectPage on a page that is already closed fails with the
\* stale-selection error after the selection has moved: the closed page is the
\* selected page and holds the dialog listener, and the page selected before
\* has lost it.
C26_SelectClosedPage ==
  (last.op = "selectPage" /\ last.arg \in browser.closed) =>
    /\ last.err = SELECTED_PAGE_CLOSED
    /\ ctx.selectedPage = last.arg
    /\ ctx.listeners[last.arg] = 1
    /\ (last.pre # NoPage /\ last.pre # last.arg) => ctx.listeners[last.pre] = 0

C26_Witness ==
  /\ last.op = "selectPage"
  /\ last.err = SELECTED_PAGE_CLOSED
  /\ last.arg \in browser.closed
  /\ last.pre # NoPage
  /\ last.pre # last.arg
  /\ last.pre \notin browser.closed
  /\ ctx.selectedPage = last.arg
  /\ ctx.listeners[last.pre] = 0

====
